---- MODULE Spec2Model ----
(***************************************************************************)
(* Model of starlite/security/base.py (AbstractSecurityConfig) and of the  *)
(* to-do tutorial application full_app_with_session_di.py.                  *)
(*                                                                         *)
(* Python values are encoded as records of one fixed shape per kind, so    *)
(* that None, a single object and a list can be compared with each other.  *)
(***************************************************************************)
EXTENDS Integers, Sequences, FiniteSets, TLC

\* ------------------------------------------------------------------ bounds
MaxMiddleware == 2
MaxComponents == 2
MaxSecurity == 2

\* ------------------------------------------------- Python value encoding
\* Optional list (guards, route_handlers of the security config)
NoList == [isNone |-> TRUE, items |-> <<>>]
SomeList(s) == [isNone |-> FALSE, items |-> s]

\* Optional dict (dependencies of the security config)
NoDict == [isNone |-> TRUE, map |-> <<>>]
SomeDict(m) == [isNone |-> FALSE, map |-> m]

\* OpenAPIConfig.components: None, one Components object, or a list of them.
\* A Components object is identified by its set of security scheme names;
\* Components() with nothing configured has the empty set.
NoComponents == [tag |-> "None", schemes |-> {}, items |-> <<>>]
Components(s) == [tag |-> "Components", schemes |-> s, items |-> <<>>]
ComponentsList(l) == [tag |-> "list", schemes |-> {}, items |-> l]

\* OpenAPIConfig.security: None or a list of SecurityRequirement
NoSecurity == [isList |-> FALSE, items |-> <<>>]
SecurityList(l) == [isList |-> TRUE, items |-> l]

\* AppConfig.openapi_config: None or an OpenAPIConfig object
NoOpenAPIConfig == [isSet |-> FALSE, components |-> NoComponents, security |-> NoSecurity]
OpenAPIConfig(c, s) == [isSet |-> TRUE, components |-> c, security |-> s]

\* variant: existing keys win (setdefault for every key of other)
DictUpdate_setdefault(d, other) ==
  [k \in (DOMAIN d) \cup (DOMAIN other) |-> IF k \in DOMAIN d THEN d[k] ELSE other[k]]

\* dict.update(other): keys of other win, all other keys are kept
DictUpdate(d, other) ==
  [k \in (DOMAIN d) \cup (DOMAIN other) |-> IF k \in DOMAIN other THEN other[k] ELSE d[k]]

\* list.insert(0, x)
ListInsertFront(l, x) == <<x>> \o l

\* Python truth value of an optional list / optional dict attribute
TruthyList(l) == (~l.isNone) /\ Len(l.items) > 0
TruthyDict(d) == (~d.isNone) /\ (DOMAIN d.map) # {}

\* variant: a Components object without entries counts as false
TruthyComponents_nonempty(c) ==
  CASE c.tag = "None" -> FALSE
    [] c.tag = "list" -> Len(c.items) > 0
    [] OTHER -> c.schemes # {}

\* Python truth value of OpenAPIConfig.components when it is not a list:
\* None is false; a Components object defines neither __bool__ nor __len__,
\* so it is true whatever it contains.
TruthyComponents(c) ==
  CASE c.tag = "None" -> FALSE
    [] c.tag = "list" -> Len(c.items) > 0
    [] OTHER -> TRUE

\* ------------------------------------------- the abstract properties
\* values returned by a concrete backend for the three abstract properties
middleware == "auth_middleware"
openapi_components == Components({"BearerToken"})
security_requirement == "BearerTokenRequirement"

\* -------------------------------------------------------- input domains
AllMiddleware == <<"cors_middleware", "logging_middleware", "csrf_middleware">>
AllComponents == <<Components({"ApiKey"}), Components({}), Components({"OAuth2"})>>
AllSecurity == <<"ApiKeyRequirement", "OAuth2Requirement", "BasicRequirement">>

Prefixes(all, n) == {SubSeq(all, 1, k) : k \in 0..n}

MiddlewareLists == Prefixes(AllMiddleware, MaxMiddleware)

ComponentsValues ==
  {NoComponents, Components({}), Components({"ApiKey"})}
    \cup {ComponentsList(l) : l \in Prefixes(AllComponents, MaxComponents)}

SecurityValues == {NoSecurity} \cup {SecurityList(l) : l \in Prefixes(AllSecurity, MaxSecurity)}

OpenAPIConfigs ==
  {NoOpenAPIConfig} \cup {OpenAPIConfig(c, s) : c \in ComponentsValues, s \in SecurityValues}

AppDependencies ==
  {<<>>, [k \in {"session", "user_repo"} |-> "app_provider"]}

\* TypeEncodersMap | None: "None", the empty mapping "{}", or a named mapping
AppTypeEncoders == {"None", "app_encoders"}
SelfTypeEncoders == {"None", "{}", "user_encoders"}

SelfDependencies ==
  {NoDict, SomeDict(<<>>), SomeDict([k \in {"session", "auth_backend"} |-> "security_provider"])}

\* guards and route_handlers of the security config: both left at None, or both given
SelfExtras ==
  {[guards |-> NoList, route_handlers |-> NoList],
   [guards |-> SomeList(<<"security_guard">>), route_handlers |-> SomeList(<<"login_handler">>)]}

\* retrieve_user_handler supplied by the user: a plain or a coroutine function
Auths == {"token_alice", "token_unknown"}
UserOf(fn, auth) ==
  CASE fn = "lookup_user" /\ auth = "token_alice" -> "alice"
    [] OTHER -> "None"
\* kind: "function" (sync), "coroutine_function" (async def) or "AsyncCallable";
\* ref is what an AsyncCallable instance holds in its ref slot
UserHandlers ==
  {[fn |-> "lookup_user", kind |-> k, ref |-> "none"] : k \in {"function", "coroutine_function"}}

AppConfigs ==
  {[middleware |-> m, openapi_config |-> o, guards |-> <<"app_guard">>,
    dependencies |-> d, route_handlers |-> <<"index_handler">>, type_encoders |-> t] :
     m \in MiddlewareLists, o \in OpenAPIConfigs, d \in AppDependencies, t \in AppTypeEncoders}

\* placeholder held by app_config / result while no on_app_init call is recorded
NoAppConfig ==
  [middleware |-> <<>>, openapi_config |-> NoOpenAPIConfig, guards |-> <<>>,
   dependencies |-> <<>>, route_handlers |-> <<>>, type_encoders |-> "None"]

NoResponse ==
  [content |-> "None", status_code |-> 0, media_type |-> "None", headers |-> "None",
   cookies |-> "None", type_encoders |-> "None"]

\* ------------------------------------------------------------------ state
VARIABLES
  self,                 \* the AbstractSecurityConfig instance
  op,                   \* the operation performed last
  app_config,           \* on_app_init: the AppConfig as it was passed in
  result,               \* on_app_init: the AppConfig returned
  caller_openapi_config,\* on_app_init: the caller's OpenAPIConfig object after the call
  type_encoders_before, \* on_app_init: self.type_encoders when the call started
  response,             \* create_response: the Response returned
  auth,                 \* awaiting retrieve_user_handler: the auth argument
  user                  \* awaiting retrieve_user_handler: the outcome

secVars == <<self, op, app_config, result, caller_openapi_config, type_encoders_before,
             response, auth, user>>

\* ------------------------------------------------ retrieve_user_handler
\* is_async_callable(fn): a coroutine function, or an object whose __call__ is one
is_async_callable(h) == h.kind \in {"coroutine_function", "AsyncCallable"}

\* AsyncCallable(fn): keeps fn itself when it is already async, otherwise
\* async_partial(fn), which runs fn in a worker thread when awaited
AsyncCallable(h) ==
  [fn |-> h.fn, kind |-> "AsyncCallable",
   ref |-> IF is_async_callable(h) THEN "fn" ELSE "async_partial"]

\* outcome of `await handler(auth, connection)`: calling a plain function
\* returns the user itself, which is not awaitable
Await(h, a) ==
  IF is_async_callable(h)
    THEN [raised |-> "None", value |-> UserOf(h.fn, a)]
    ELSE [raised |-> "TypeError", value |-> "None"]

\* ------------------------------------------------------------ on_app_init
\* variant: the middleware is appended instead of inserted at the front
InsertMiddleware_append(mw) == Append(mw, middleware)

\* app_config.middleware.insert(0, self.middleware)
InsertMiddleware(mw) == ListInsertFront(mw, middleware)

\* the three-way branch on app_config.openapi_config.components
MergeComponents(c) ==
  IF c.tag = "list"
    THEN ComponentsList(Append(c.items, openapi_components))
    ELSE IF TruthyComponents(c)
      THEN ComponentsList(<<openapi_components, c>>)
      ELSE ComponentsList(<<openapi_components>>)

\* variant: the security list is always replaced
MergeSecurity_replace(sec) == SecurityList(<<security_requirement>>)

\* the branch on app_config.openapi_config.security
MergeSecurity(sec) ==
  IF sec.isList
    THEN SecurityList(Append(sec.items, security_requirement))
    ELSE SecurityList(<<security_requirement>>)

\* if app_config.openapi_config: copy it, then merge components and security
MergeOpenAPIConfig(o) ==
  IF o.isSet
    THEN OpenAPIConfig(MergeComponents(o.components), MergeSecurity(o.security))
    ELSE o

\* copy() is shallow: a components or security list is shared between the
\* copy and the caller's object, so append() shows through; an attribute
\* assigned on the copy does not
CallerOpenAPIConfigAfter(o) ==
  IF o.isSet
    THEN OpenAPIConfig(
           IF o.components.tag = "list" THEN MergeComponents(o.components) ELSE o.components,
           IF o.security.isList THEN MergeSecurity(o.security) ELSE o.security)
    ELSE o

\* if self.guards: app_config.guards.extend(self.guards)
ExtendGuards(g, s) == IF TruthyList(s.guards) THEN g \o s.guards.items ELSE g

\* if self.dependencies: app_config.dependencies.update(self.dependencies)
UpdateDependencies(d, s) ==
  IF TruthyDict(s.dependencies) THEN DictUpdate(d, s.dependencies.map) ELSE d

\* if self.route_handlers: app_config.route_handlers.extend(self.route_handlers)
ExtendRouteHandlers(r, s) ==
  IF TruthyList(s.route_handlers) THEN r \o s.route_handlers.items ELSE r

\* variant: tests truthiness (`if not self.type_encoders`) instead of `is None`
InheritTypeEncoders_falsy(own, app) == IF own \in {"None", "{}"} THEN app ELSE own

\* if self.type_encoders is None: self.type_encoders = app_config.type_encoders
InheritTypeEncoders(own, app) == IF own = "None" THEN app ELSE own

\* the AppConfig returned by on_app_init
OnAppInitResult(s, cfg) ==
  [middleware |-> InsertMiddleware(cfg.middleware),
   openapi_config |-> MergeOpenAPIConfig(cfg.openapi_config),
   guards |-> ExtendGuards(cfg.guards, s),
   dependencies |-> UpdateDependencies(cfg.dependencies, s),
   route_handlers |-> ExtendRouteHandlers(cfg.route_handlers, s),
   type_encoders |-> cfg.type_encoders]

\* ---------------------------------------------------------------- actions
SecInit ==
  /\ \E x \in SelfExtras, d \in SelfDependencies, t \in SelfTypeEncoders, h \in UserHandlers :
       self = [guards |-> x.guards, dependencies |-> d, route_handlers |-> x.route_handlers,
               type_encoders |-> t, retrieve_user_handler |-> h]
  /\ op = "__init__"
  /\ app_config = NoAppConfig
  /\ result = NoAppConfig
  /\ caller_openapi_config = NoOpenAPIConfig
  /\ type_encoders_before = "None"
  /\ response = NoResponse
  /\ auth = "None"
  /\ user = [raised |-> "None", value |-> "None"]

\* variant: __post_init__ leaves the handler as the user supplied it
post_init_unwrapped ==
  /\ op = "__init__"
  /\ op' = "__post_init__"
  /\ UNCHANGED <<self, app_config, result, caller_openapi_config, type_encoders_before,
                 response, auth, user>>

\* the final step of constructing the config
post_init ==
  /\ op = "__init__"
  /\ self' = [self EXCEPT !.retrieve_user_handler = AsyncCallable(self.retrieve_user_handler)]
  /\ op' = "__post_init__"
  /\ UNCHANGED <<app_config, result, caller_openapi_config, type_encoders_before,
                 response, auth, user>>

on_app_init ==
  /\ op # "__init__"
  /\ \E cfg \in AppConfigs :
       /\ app_config' = cfg
       /\ result' = OnAppInitResult(self, cfg)
       /\ caller_openapi_config' = CallerOpenAPIConfigAfter(cfg.openapi_config)
       /\ type_encoders_before' = self.type_encoders
       /\ self' = [self EXCEPT !.type_encoders = InheritTypeEncoders(self.type_encoders, cfg.type_encoders)]
  /\ op' = "on_app_init"
  /\ response' = NoResponse
  /\ auth' = "None"
  /\ user' = [raised |-> "None", value |-> "None"]

create_response ==
  /\ op # "__init__"
  /\ \E content \in {"None", "body"}, status_code \in {200, 401} :
       response' = [content |-> content, status_code |-> status_code,
                    media_type |-> "application/json", headers |-> "None",
                    cookies |-> "None", type_encoders |-> self.type_encoders]
  /\ op' = "create_response"
  /\ app_config' = NoAppConfig
  /\ result' = NoAppConfig
  /\ caller_openapi_config' = NoOpenAPIConfig
  /\ type_encoders_before' = "None"
  /\ auth' = "None"
  /\ user' = [raised |-> "None", value |-> "None"]
  /\ UNCHANGED self

\* the authentication middleware awaits the stored handler
retrieve_user ==
  /\ op # "__init__"
  /\ \E a \in Auths :
       /\ auth' = a
       /\ user' = Await(self.retrieve_user_handler, a)
  /\ op' = "retrieve_user"
  /\ app_config' = NoAppConfig
  /\ result' = NoAppConfig
  /\ caller_openapi_config' = NoOpenAPIConfig
  /\ type_encoders_before' = "None"
  /\ response' = NoResponse
  /\ UNCHANGED self

\* ======================================================================
\* The to-do application (full_app_with_session_di.py)
\* ======================================================================
Titles == {"milk", "eggs"}
Absent == "<absent>"

\* request bodies: the keys "title" and "done" may be missing from the payload
TodoData == [title : Titles \cup {Absent}, done : BOOLEAN, has_done : BOOLEAN]
NoData == [title |-> Absent, done |-> FALSE, has_done |-> FALSE]

NoPending == [kind |-> "none", old |-> Absent, title |-> Absent, done |-> FALSE]
NoRequest == [handler |-> "none", item_title |-> Absent, data |-> NoData]
NoTodoResponse == [status_code |-> 0, exception |-> "None"]

VARIABLES
  db,            \* table todo_items as committed: title -> done
  pc,            \* where the request in progress stands
  request,       \* route handler selected and its arguments
  session,       \* the AsyncSession's pending (unflushed) change
  handler_exc,   \* exception the route handler raised, "None" if it returned
  db_before,     \* the table when the request arrived
  integrity_error,\* an IntegrityError was raised while serving the request
  todo_response  \* what the client receives

todoVars == <<db, pc, request, session, handler_exc, db_before, integrity_error, todo_response>>
vars == <<secVars, todoVars>>

\* flushing the pending change: the primary key (title) must stay unique
FlushViolates(table, pending) ==
  CASE pending.kind = "insert" -> pending.title \in DOMAIN table
    [] pending.kind = "update" -> pending.title # pending.old /\ pending.title \in DOMAIN table
    [] OTHER -> FALSE

Flush(table, pending) ==
  CASE pending.kind = "insert" ->
         [t \in (DOMAIN table) \cup {pending.title} |->
            IF t = pending.title THEN pending.done ELSE table[t]]
    [] pending.kind = "update" ->
         [t \in ((DOMAIN table) \ {pending.old}) \cup {pending.title} |->
            IF t = pending.title THEN pending.done ELSE table[t]]
    [] OTHER -> table

\* leaving `async with session.begin()`: with an exception in flight the
\* transaction is rolled back and the exception re-raised; otherwise the
\* session is flushed and committed, or rolled back if the flush fails
SessionBeginExit(table, pending, exc) ==
  IF exc # "None"
    THEN [db |-> table, raised |-> exc]
    ELSE IF FlushViolates(table, pending)
      THEN [db |-> table, raised |-> "IntegrityError"]
      ELSE [db |-> Flush(table, pending), raised |-> "None"]

HTTP_409_CONFLICT == 409

\* variant: no except clause, the IntegrityError is left to propagate
ProvideTransactionExcept_reraise(raised) == [exception |-> raised, status_code |-> 0]

\* except IntegrityError as exc: raise ClientException(status_code=HTTP_409_CONFLICT, ...)
ProvideTransactionExcept(raised) ==
  IF raised = "IntegrityError"
    THEN [exception |-> "ClientException", status_code |-> HTTP_409_CONFLICT]
    ELSE [exception |-> raised, status_code |-> 0]

\* status the framework answers with
StatusOf(handler, exit) ==
  CASE exit.exception = "None" -> IF handler = "add_item" THEN 201 ELSE 200
    [] exit.exception = "ClientException" -> exit.status_code
    [] exit.exception = "NotFoundException" -> 404
    [] OTHER -> 500

TodoInit ==
  /\ db = <<>>
  /\ pc = "idle"
  /\ request = NoRequest
  /\ session = NoPending
  /\ handler_exc = "None"
  /\ db_before = <<>>
  /\ integrity_error = FALSE
  /\ todo_response = NoTodoResponse

\* a request arrives; provide_transaction opens the session, begins the
\* transaction and yields the session to the handler
provide_transaction_enter ==
  /\ pc \in {"idle", "done"}
  /\ \E h \in {"get_list", "add_item", "update_item"}, t \in Titles, d \in TodoData :
       request' = [handler |-> h,
                   item_title |-> IF h = "update_item" THEN t ELSE Absent,
                   data |-> IF h = "get_list" THEN NoData ELSE d]
  /\ session' = NoPending
  /\ handler_exc' = "None"
  /\ db_before' = db
  /\ integrity_error' = FALSE
  /\ todo_response' = NoTodoResponse
  /\ pc' = "handler"
  /\ UNCHANGED db

get_list ==
  /\ pc = "handler" /\ request.handler = "get_list"
  /\ pc' = "cleanup"
  /\ UNCHANGED <<db, request, session, handler_exc, db_before, integrity_error, todo_response>>

\* TodoItem(title=data["title"], done=data["done"]) is built before
\* transaction.add, so a missing key leaves the session untouched
add_item ==
  /\ pc = "handler" /\ request.handler = "add_item"
  /\ IF request.data.title = Absent \/ ~request.data.has_done
       THEN handler_exc' = "KeyError" /\ UNCHANGED session
       ELSE /\ session' = [kind |-> "insert", old |-> Absent,
                           title |-> request.data.title, done |-> request.data.done]
            /\ UNCHANGED handler_exc
  /\ pc' = "cleanup"
  /\ UNCHANGED <<db, request, db_before, integrity_error, todo_response>>

\* get_todo_by_title, then the two attribute assignments in order: a missing
\* "done" key raises after the title has already been changed in the session
update_item ==
  /\ pc = "handler" /\ request.handler = "update_item"
  /\ IF request.item_title \notin DOMAIN db
       THEN handler_exc' = "NotFoundException" /\ UNCHANGED session
       ELSE IF request.data.title = Absent
         THEN handler_exc' = "KeyError" /\ UNCHANGED session
         ELSE /\ session' = [kind |-> "update", old |-> request.item_title,
                             title |-> request.data.title,
                             done |-> IF request.data.has_done THEN request.data.done
                                      ELSE db[request.item_title]]
              /\ handler_exc' = IF request.data.has_done THEN "None" ELSE "KeyError"
  /\ pc' = "cleanup"
  /\ UNCHANGED <<db, request, db_before, integrity_error, todo_response>>

\* the framework resumes the generator after the handler: it throws the
\* handler's exception into it, or lets it run to its end
provide_transaction_exit ==
  /\ pc = "cleanup"
  /\ LET left == SessionBeginExit(db, session, handler_exc)
         exit == ProvideTransactionExcept(left.raised)
     IN /\ db' = left.db
        /\ integrity_error' = (left.raised = "IntegrityError")
        /\ todo_response' = [status_code |-> StatusOf(request.handler, exit),
                             exception |-> exit.exception]
  /\ session' = NoPending
  /\ pc' = "done"
  /\ UNCHANGED <<request, handler_exc, db_before>>

\* ---------------------------------------------------------- specifications
SecIdle ==
  /\ self = [guards |-> NoList, dependencies |-> NoDict, route_handlers |-> NoList,
             type_encoders |-> "None",
             retrieve_user_handler |-> [fn |-> "lookup_user", kind |-> "function", ref |-> "none"]]
  /\ op = "__init__"
  /\ app_config = NoAppConfig
  /\ result = NoAppConfig
  /\ caller_openapi_config = NoOpenAPIConfig
  /\ type_encoders_before = "None"
  /\ response = NoResponse
  /\ auth = "None"
  /\ user = [raised |-> "None", value |-> "None"]

Init == SecInit /\ TodoInit
Next ==
  \/ post_init /\ UNCHANGED todoVars
  \/ on_app_init /\ UNCHANGED todoVars
  \/ create_response /\ UNCHANGED todoVars
  \/ retrieve_user /\ UNCHANGED todoVars
Spec == Init /\ [][Next]_vars

TodoSpecInit == SecIdle /\ TodoInit
TodoNext ==
  \/ provide_transaction_enter /\ UNCHANGED secVars
  \/ get_list /\ UNCHANGED secVars
  \/ add_item /\ UNCHANGED secVars
  \/ update_item /\ UNCHANGED secVars
  \/ provide_transaction_exit /\ UNCHANGED secVars
TodoSpec == TodoSpecInit /\ [][TodoNext]_vars

\* ======================================================================
\* Properties
\* ======================================================================
Called == op = "on_app_init"

\* C1: after on_app_init the security middleware is at index 0 of
\* app_config.middleware, the list is one element longer, and the previous
\* middleware follow in their previous order.
C1_MiddlewareFirst ==
  Called =>
    /\ Len(result.middleware) = Len(app_config.middleware) + 1
    /\ result.middleware[1] = middleware
    /\ \A i \in 1..Len(app_config.middleware) :
         result.middleware[i + 1] = app_config.middleware[i]

C1_Witness ==
  /\ Called
  /\ Len(app_config.middleware) >= 2
  /\ result.middleware[1] = middleware

\* C2: on_app_init takes over app_config.type_encoders exactly when the
\* config's own type_encoders is None at the start of the call, a value that
\* is already set is kept, and a Response built by create_response carries
\* the config's current type_encoders.
C2_TypeEncoders ==
  /\ Called =>
       /\ (type_encoders_before = "None") => (self.type_encoders = app_config.type_encoders)
       /\ (type_encoders_before # "None") => (self.type_encoders = type_encoders_before)
  /\ (op = "create_response") => (response.type_encoders = self.type_encoders)

\* a value inherited from an earlier application survives a later call
C2_Witness ==
  /\ Called
  /\ type_encoders_before = "app_encoders"
  /\ app_config.type_encoders = "None"
  /\ self.type_encoders = "app_encoders"

\* C3: after __post_init__ the stored retrieve_user_handler is async-callable
\* whether the user's handler was sync or async, and awaiting it with
\* (auth, connection) yields the user the original handler returns.
C3_AsyncHandler ==
  /\ (op # "__init__") => is_async_callable(self.retrieve_user_handler)
  /\ (op = "retrieve_user") =>
       user = [raised |-> "None", value |-> UserOf(self.retrieve_user_handler.fn, auth)]

\* a sync handler, wrapped, has been awaited and found the user
C3_Witness ==
  /\ op = "retrieve_user"
  /\ self.retrieve_user_handler.ref = "async_partial"
  /\ auth = "token_alice"
  /\ user.value = "alice"

\* C4 as stated: components becomes a list holding the security components
\* and all previous entries: appended last to a list, [security, previous]
\* for a single non-empty Components, [security] when empty or absent; an
\* unset openapi_config stays unset.
C4_AsStated ==
  Called =>
    LET before == app_config.openapi_config.components
        after == result.openapi_config.components
    IN IF app_config.openapi_config.isSet
         THEN /\ after.tag = "list"
              /\ before.tag = "list" => after.items = Append(before.items, openapi_components)
              /\ (before.tag = "Components" /\ before.schemes # {}) =>
                   after.items = <<openapi_components, before>>
              /\ (before.tag = "None" \/ (before.tag = "Components" /\ before.schemes = {})) =>
                   after.items = <<openapi_components>>
         ELSE ~result.openapi_config.isSet

\* C4 (amended): components becomes a list holding the security components
\* and all previous entries: appended last to a list, [security, previous]
\* for a single Components value whether or not it has entries, [security]
\* when absent (None); an unset openapi_config stays unset.
C4_Components ==
  Called =>
    LET before == app_config.openapi_config.components
        after == result.openapi_config.components
    IN IF app_config.openapi_config.isSet
         THEN /\ after.tag = "list"
              /\ \E i \in 1..Len(after.items) : after.items[i] = openapi_components
              /\ before.tag = "list" => after.items = Append(before.items, openapi_components)
              /\ before.tag = "Components" => after.items = <<openapi_components, before>>
              /\ before.tag = "None" => after.items = <<openapi_components>>
         ELSE ~result.openapi_config.isSet

\* a Components object without entries was configured and is kept
C4_Witness ==
  /\ Called
  /\ app_config.openapi_config.isSet
  /\ app_config.openapi_config.components = Components({})
  /\ result.openapi_config.components.items = <<openapi_components, Components({})>>

\* C5: when openapi_config is set, security becomes a list ending with the
\* security requirement; the entries of a previous list are kept in order
\* before it, and a non-list (None) gives the one-element list.
C5_Security ==
  (Called /\ app_config.openapi_config.isSet) =>
    LET before == app_config.openapi_config.security
        after == result.openapi_config.security
    IN /\ after.isList
       /\ after.items[Len(after.items)] = security_requirement
       /\ before.isList =>
            /\ Len(after.items) = Len(before.items) + 1
            /\ \A i \in 1..Len(before.items) : after.items[i] = before.items[i]
       /\ ~before.isList => after.items = <<security_requirement>>

C5_Witness ==
  /\ Called
  /\ app_config.openapi_config.isSet
  /\ app_config.openapi_config.security.isList
  /\ Len(app_config.openapi_config.security.items) >= 2
  /\ Len(result.openapi_config.security.items) >= 3

\* C6: after on_app_init the dependencies are the union of the previous ones
\* and the security config's: the security config's keys map to its
\* providers, every other key keeps its provider, no key is removed, and
\* nothing changes when the security config's dependencies is None or empty.
C6_Dependencies ==
  Called =>
    LET own == IF self.dependencies.isNone THEN {} ELSE DOMAIN self.dependencies.map
        before == app_config.dependencies
        after == result.dependencies
    IN /\ DOMAIN after = (DOMAIN before) \cup own
       /\ \A k \in own : after[k] = self.dependencies.map[k]
       /\ \A k \in (DOMAIN before) \ own : after[k] = before[k]
       /\ own = {} => after = before

\* a key registered by both is overridden, the other keys are kept
C6_Witness ==
  /\ Called
  /\ ~self.dependencies.isNone
  /\ "session" \in DOMAIN app_config.dependencies
  /\ "session" \in DOMAIN self.dependencies.map
  /\ result.dependencies["session"] = "security_provider"
  /\ result.dependencies["user_repo"] = "app_provider"

\* C7: the transaction is committed only if the handler finishes without
\* raising; an IntegrityError reaches the client as ClientException with
\* status 409 and nothing of the request is stored; any other exception
\* propagates unchanged with the transaction rolled back.
C7_Transaction ==
  (pc = "done") =>
    /\ (db # db_before) => (handler_exc = "None" /\ todo_response.exception = "None")
    /\ integrity_error =>
         /\ todo_response.exception = "ClientException"
         /\ todo_response.status_code = 409
         /\ db = db_before
    /\ (handler_exc # "None") =>
         /\ todo_response.exception = handler_exc
         /\ db = db_before

\* update_item renamed an item to a title that already exists
C7_Witness ==
  /\ pc = "done"
  /\ request.handler = "update_item"
  /\ integrity_error
  /\ todo_response.status_code = 409
  /\ Cardinality(DOMAIN db) = 2

====
